---- MODULE Spec2Model ----
(***************************************************************************)
(* Model of the user controller of videotube-Backend                       *)
(* (src/controllers/user.controller.js).                                   *)
(*                                                                         *)
(* The server is a single-threaded event loop.  A request handler runs     *)
(* without interruption up to its next access to the account store; the    *)
(* other handlers in flight may run between two accesses.  A step of the   *)
(* model is therefore one store access of one handler together with the    *)
(* synchronous code around it: the start actions (RegisterUser, LoginUser, *)
(* ...) run a handler up to and including its first store access, and      *)
(* Resume runs a suspended handler through its next one.                   *)
(*                                                                         *)
(* Strings are sequences of one-character strings, so that trimming, case  *)
(* folding and the password pattern are computed as the code computes      *)
(* them.                                                                   *)
(***************************************************************************)
EXTENDS Integers, Sequences, FiniteSets, TLC

VARIABLES
    users,      \* the users collection, in insertion order; _id = index
    calls,      \* the requests in flight or last answered, one per connection
    nCalls,     \* requests received so far
    tokenClock, \* serial of the last token pair signed
    delivered,  \* history: refresh tokens handed to a client by a login response
    presented,  \* history: refresh tokens a refresh request has presented
    revoked,    \* history: delivered tokens of an account that has logged out since
    superseded, \* history: delivered tokens followed by a later login's response
    session,    \* history: the session state of section 4.2, per account
    subscriptions \* the subscriptions collection, in insertion order

vars == <<users, calls, nCalls, tokenClock, delivered, presented, revoked, superseded,
          session, subscriptions>>

\* ---------------------------------------------------------------- bounds

\* Requests received in a run.
MaxCalls == 4

\* Subscription edges the store holds at most.
MaxEdges == 3

\* Entries a watch history holds at most.
MaxHistory == 3

\* The connections: a request is handled on one of them, and the handlers of the
\* two may interleave at every store access.
Conns == {1, 2}

\* ---------------------------------------------------------------- strings

UpperChars == <<"A","B","C","D","E","F","G","H","I","J","K","L","M",
                "N","O","P","Q","R","S","T","U","V","W","X","Y","Z">>
LowerChars == <<"a","b","c","d","e","f","g","h","i","j","k","l","m",
                "n","o","p","q","r","s","t","u","v","w","x","y","z">>
DigitChars == {"0","1","2","3","4","5","6","7","8","9"}
SymbolChars == {"@","$","!","%","*","?","&"}
WhiteChars == {" "}

IsUpper(c) == \E i \in 1..Len(UpperChars) : UpperChars[i] = c
IsLower(c) == \E i \in 1..Len(LowerChars) : LowerChars[i] = c

\* The value of a request field that was not sent.
Undefined == <<"undefined">>

LowerChar(c) ==
    IF IsUpper(c)
    THEN LowerChars[CHOOSE i \in 1..Len(UpperChars) : UpperChars[i] = c]
    ELSE c

\* String.prototype.toLowerCase
ToLowerCase(s) == [i \in 1..Len(s) |-> LowerChar(s[i])]

RECURSIVE TrimStart(_)
TrimStart(s) ==
    IF s # <<>> /\ Head(s) \in WhiteChars THEN TrimStart(Tail(s)) ELSE s

RECURSIVE TrimEnd(_)
TrimEnd(s) ==
    IF s # <<>> /\ s[Len(s)] \in WhiteChars
    THEN TrimEnd(SubSeq(s, 1, Len(s) - 1))
    ELSE s

\* String.prototype.trim
Trim(s) == TrimEnd(TrimStart(s))

\* field?.trim() === "": a field that was not sent is not blank.
IsBlank(field) == field # Undefined /\ Trim(field) = <<>>

\* !value for a string or undefined
Falsy(v) == v = Undefined \/ v = <<>>

\* ---------------------------------------------------------------- records

NoToken == [id |-> 0, n |-> 0]
NoDoc == [absent |-> TRUE]

\* A refresh token that verifies for account a but was never issued by a login.
Stale(a) == [id |-> a, n |-> 0]

NoReq == [username |-> Undefined, email |-> Undefined, fullName |-> Undefined,
          password |-> Undefined, newPassword |-> Undefined,
          avatarFile |-> FALSE, coverFile |-> FALSE, uploadOk |-> TRUE,
          token |-> NoToken, caller |-> 0,
          url |-> Undefined, deletion |-> "deleted"]

NoLoc == [userId |-> 0, accessToken |-> NoToken, refreshToken |-> NoToken,
          password |-> Undefined,
          oldUrl |-> Undefined, deleted |-> Undefined, persisted |-> FALSE]

NoHist == [wasStored |-> FALSE, wasRevoked |-> FALSE, wasSuperseded |-> FALSE,
           firstUse |-> FALSE, matched |-> FALSE, prior |-> {},
           conflict |-> FALSE, identical |-> FALSE]

NoRes == [status |-> 0, success |-> FALSE, message |-> "", user |-> NoDoc,
          accessToken |-> NoToken, refreshToken |-> NoToken,
          hasList |-> FALSE, list |-> <<>>]

IdleCall == [op |-> "none", seq |-> 0, pc |-> "idle", req |-> NoReq, loc |-> NoLoc,
             res |-> NoRes, hist |-> NoHist]

\* ---------------------------------------------------------------- the store

UserIds == 1..Len(users)

\* The schema's lowercase setter on username and email; mongoose runs it on
\* the documents it writes and on the filters it queries with.
SchemaCast(v) == IF v = Undefined THEN v ELSE ToLowerCase(v)

\* bcrypt: the stored hash of a password (the schema's pre-save hook).
Hash(password) == <<"$2b$">> \o password

\* user.isPasswordCorrect(password)
IsPasswordCorrect(user, password) ==
    password # Undefined /\ Hash(password) = user.password

\* The first document a filter matches, 0 when there is none.
FirstOf(ids) == IF ids = {} THEN 0 ELSE CHOOSE i \in ids : \A j \in ids : i <= j

\* query.select("-a -b"): the document without the named fields.
Select(doc, excluded) == [f \in (DOMAIN doc) \ excluded |-> doc[f]]

\* The unique indexes on username and email.
UniqueIndexAllows(username, email) ==
    \A i \in UserIds : users[i].username # username /\ users[i].email # email

\* ---------------------------------------------------------------- responses

\* throw new ApiError(statusCode, message), as the error middleware answers it
ApiError(statusCode, message) ==
    [NoRes EXCEPT !.status = statusCode, !.success = FALSE, !.message = message]

\* res.status(statusCode).json(new ApiResponse(statusCode, data, message))
ApiResponse(statusCode, message) ==
    [NoRes EXCEPT !.status = statusCode, !.success = statusCode < 400,
                  !.message = message]

\* A request may arrive on connection p.
Free(p) == calls[p].pc \in {"idle", "done"} /\ nCalls < MaxCalls

\* The handler of a request that has just arrived.
Arrive(op, req, hist) ==
    [IdleCall EXCEPT !.op = op, !.seq = nCalls + 1, !.req = req, !.hist = hist]

\* The handler has answered.
Done(call, response) == [call EXCEPT !.pc = "done", !.res = response]

\* The handler waits for the store access named pc.
Await(call, pc) == [call EXCEPT !.pc = pc]

History == <<delivered, presented, revoked, superseded, session>>

\* ---------------------------------------------------------------- registerUser

AvatarUrl == <<"avatar-url">>
CoverUrl == <<"cover-url">>

\* The catch of registerUser's try block: whatever was thrown inside becomes a 500.
RegisterCatch(error) == ApiError(500, "Internal server error during registration")

\* Mutant: the lookup matches the username alone.
FindByUsernameOnly(username, email) ==
    FirstOf({i \in UserIds : users[i].username = SchemaCast(username)})

\* User.findOne({ $or: [{ username }, { email }] })
FindByUsernameOrEmail(username, email) ==
    FirstOf({i \in UserIds : \/ users[i].username = SchemaCast(username)
                             \/ users[i].email = SchemaCast(email)})

\* The checks of registerUser before the uploads: the error thrown, NoRes when
\* there is none.  existingUser is what findOne returned.
RegisterReject(req, existingUser) ==
    IF \E field \in {req.username, req.email, req.fullName, req.password} :
            IsBlank(field)
    THEN ApiError(400, "All fields are required")
    ELSE IF existingUser # 0
    THEN ApiError(400, "User already exists")
    ELSE IF ~req.avatarFile
    THEN RegisterCatch(ApiError(400, "Avatar image is required"))
    ELSE NoRes

\* registerUser up to its first store access and the avatar check that follows it.
RegisterUser(p, username, email, fullName, password, avatarFile, coverFile, uploadOk) ==
    /\ Free(p)
    /\ LET req == [NoReq EXCEPT !.username = username, !.email = email,
                                !.fullName = fullName, !.password = password,
                                !.avatarFile = avatarFile, !.coverFile = coverFile,
                                !.uploadOk = uploadOk]
           existingUser == FindByUsernameOrEmail(username, email)
           call == Arrive("registerUser", req, [NoHist EXCEPT !.matched = existingUser # 0])
           error == RegisterReject(req, existingUser)
       IN  calls' = [calls EXCEPT ![p] =
                IF error # NoRes THEN Done(call, error) ELSE Await(call, "reg_create")]
    /\ nCalls' = nCalls + 1
    /\ UNCHANGED <<subscriptions, users, tokenClock, History>>

\* The uploads and User.create.
RegisterCreate(p) ==
    LET call == calls[p]
        req == call.req
        doc == [username |-> SchemaCast(req.username),
                email |-> SchemaCast(req.email),
                fullName |-> req.fullName,
                avatar |-> AvatarUrl,
                coverImage |-> IF req.coverFile THEN CoverUrl ELSE <<>>,
                password |-> Hash(req.password),
                refreshToken |-> NoToken,
                watchHistory |-> <<>>]
    IN  IF ~req.uploadOk
        THEN /\ calls' = [calls EXCEPT ![p] = Done(call,
                    RegisterCatch(ApiError(500, "Failed to upload avatar to Cloudinary")))]
             /\ UNCHANGED <<subscriptions, users, nCalls, tokenClock, History>>
        ELSE IF ~UniqueIndexAllows(doc.username, doc.email)
        THEN /\ calls' = [calls EXCEPT ![p] = Done(call,
                    RegisterCatch(ApiError(500, "E11000 duplicate key error")))]
             /\ UNCHANGED <<subscriptions, users, nCalls, tokenClock, History>>
        ELSE /\ users' = Append(users, doc)
             /\ session' = Append(session, "Registered")
             /\ calls' = [calls EXCEPT ![p] =
                    Await([call EXCEPT !.loc.userId = Len(users) + 1], "reg_findById")]
             /\ UNCHANGED <<subscriptions, nCalls, tokenClock, delivered, presented, revoked, superseded>>

\* User.findById(user._id).select("-password -refreshToken") and the answer.
RegisterFindById(p) ==
    LET call == calls[p]
        createdUser == Select(users[call.loc.userId], {"password", "refreshToken"})
    IN  /\ calls' = [calls EXCEPT ![p] = Done(call,
                [ApiResponse(200, "User registered successfully") EXCEPT
                    !.user = createdUser])]
        /\ UNCHANGED <<subscriptions, users, nCalls, tokenClock, History>>

\* ---------------------------------------------------------------- token pair

\* user.generateAccessToken() and user.generateRefreshToken(): a signed token
\* carrying the account's id; no two signings give the same token.
GenerateToken(userId) == [id |-> userId, n |-> tokenClock + 1]

\* genarateAccessTokenAndRefreshToken: User.findById and the two signings.
GenarateFindById(p) ==
    LET call == calls[p]
        userid == call.loc.userId
    IN  IF userid \notin UserIds
        THEN /\ calls' = [calls EXCEPT ![p] = Done(call,
                    IF call.op = "refreshAccessToken"
                    THEN ApiError(401, "Something went wrong for generate Access token or Refresh token")
                    ELSE ApiError(500, "Something went wrong for generate Access token or Refresh token"))]
             /\ UNCHANGED <<subscriptions, users, nCalls, tokenClock, History>>
        ELSE /\ tokenClock' = tokenClock + 1
             /\ calls' = [calls EXCEPT ![p] =
                    Await([call EXCEPT !.loc.accessToken = GenerateToken(userid),
                                       !.loc.refreshToken = GenerateToken(userid)],
                          "gen_save")]
             /\ UNCHANGED <<subscriptions, users, nCalls, History>>

\* Mutant: the token is stored only when the account holds none.
SaveRefreshTokenIfNone(userid, refreshToken) ==
    IF users[userid].refreshToken = NoToken
    THEN [users EXCEPT ![userid].refreshToken = refreshToken]
    ELSE users

\* Mutant: the assignment is never saved.
SaveRefreshTokenDropped(userid, refreshToken) == users

\* user.refreshToken = refreshToken; await user.save(...)
SaveRefreshToken(userid, refreshToken) ==
    [users EXCEPT ![userid].refreshToken = refreshToken]

\* What genarateAccessTokenAndRefreshToken returns.
GenarateResult(loc) ==
    [accessToken |-> loc.accessToken, refreshToken |-> loc.refreshToken]

\* const { key } = object: a name the object lacks is bound to undefined.
Destructure(object, key) == IF key \in DOMAIN object THEN object[key] ELSE NoToken

\* genarateAccessTokenAndRefreshToken: the save, and what the caller does with
\* the pair.  refreshAccessToken answers at once; loginUser reads the account again.
GenarateSave(p) ==
    LET call == calls[p]
        userid == call.loc.userId
        pair == GenarateResult(call.loc)
    IN  /\ users' = SaveRefreshToken(userid, call.loc.refreshToken)
        /\ session' = [session EXCEPT ![userid] = "Authenticated"]
        /\ calls' = [calls EXCEPT ![p] =
                IF call.op = "refreshAccessToken"
                THEN Done(call, [ApiResponse(200, "Access token refreshed") EXCEPT
                        !.accessToken = Destructure(pair, "accessToken"),
                        !.refreshToken = Destructure(pair, "newRefreshToken")])
                ELSE Await(call, "login_findById")]
        /\ UNCHANGED <<subscriptions, nCalls, tokenClock, delivered, presented, revoked, superseded>>

\* ---------------------------------------------------------------- loginUser

\* User.findOne({ email: email.toLowerCase() })
FindByEmail(email) ==
    FirstOf({i \in UserIds : users[i].email = SchemaCast(ToLowerCase(email))})

\* Mutant: the password is not checked.
LoginRejectNoPassword(email, user, password) ==
    IF Falsy(email)
    THEN ApiError(400, "email is required")
    ELSE IF user = 0
    THEN ApiError(404, "User does not exist")
    ELSE NoRes

\* The checks of loginUser before it issues tokens: the error thrown, NoRes when
\* there is none.  user is what findOne returned.
LoginReject(email, user, password) ==
    IF Falsy(email)
    THEN ApiError(400, "email is required")
    ELSE IF user = 0
    THEN ApiError(404, "User does not exist")
    ELSE IF ~IsPasswordCorrect(users[user], password)
    THEN ApiError(401, "Invalid user credentials")
    ELSE NoRes

\* loginUser up to the password check.
LoginUser(p, email, password) ==
    /\ Free(p)
    /\ LET req == [NoReq EXCEPT !.email = email, !.password = password]
           user == IF Falsy(email) THEN 0 ELSE FindByEmail(email)
           call == Arrive("loginUser", req,
                          [NoHist EXCEPT !.matched = user # 0, !.prior = delivered])
           error == LoginReject(email, user, password)
       IN  calls' = [calls EXCEPT ![p] =
                IF error # NoRes
                THEN Done(call, error)
                ELSE Await([call EXCEPT !.loc.userId = user], "gen_findById")]
    /\ nCalls' = nCalls + 1
    /\ UNCHANGED <<subscriptions, users, tokenClock, History>>

\* User.findById(user._id).select("-password -refreshToken") and the answer.
LoginFindById(p) ==
    LET call == calls[p]
        userid == call.loc.userId
        loggedInUser == Select(users[userid], {"password", "refreshToken"})
    IN  /\ calls' = [calls EXCEPT ![p] = Done(call,
                [ApiResponse(200, "User logged in successfully") EXCEPT
                    !.user = loggedInUser,
                    !.accessToken = call.loc.accessToken,
                    !.refreshToken = call.loc.refreshToken])]
        /\ delivered' = delivered \cup {call.loc.refreshToken}
        /\ superseded' = superseded \cup {t \in call.hist.prior : t.id = userid}
        /\ UNCHANGED <<subscriptions, users, nCalls, tokenClock, presented, revoked, session>>

\* ---------------------------------------------------------------- logoutUser

\* The accounts a client holds an access token of: the auth middleware sets
\* req.user from a verified access token.
Authenticated == {t.id : t \in delivered}

\* Mutant: the update unsets nothing.
UnsetNothing(userid) == users

\* User.findByIdAndUpdate(req.user._id, { $unset: { refreshToken: 1 } })
UnsetRefreshToken(userid) == [users EXCEPT ![userid].refreshToken = NoToken]

LogoutUser(p, caller) ==
    /\ Free(p)
    /\ caller \in Authenticated
    /\ users' = UnsetRefreshToken(caller)
    /\ session' = [session EXCEPT ![caller] = "Registered"]
    /\ revoked' = revoked \cup {t \in delivered : t.id = caller}
    /\ calls' = [calls EXCEPT ![p] =
            Done(Arrive("logoutUser", [NoReq EXCEPT !.caller = caller], NoHist),
                 ApiResponse(200, "User logged out successfully"))]
    /\ nCalls' = nCalls + 1
    /\ UNCHANGED <<subscriptions, tokenClock, delivered, presented, superseded>>

\* ---------------------------------------------------------------- refreshAccessToken

\* jwt.verify(incomingRefreshToken, process.env.ACCESS_TOKEN_SECRET): the module
\* imports no jwt, so evaluating the name throws a ReferenceError.
JwtVerify(token) == [threw |-> TRUE, message |-> "jwt is not defined", id |-> 0]

\* The catch of refreshAccessToken's try block.
RefreshCatch(error) == ApiError(401, error.message)

\* Steps 4 to 6 of refreshAccessToken: User.findById and the comparison with the
\* stored token.
RefreshFindById(call, decodedToken) ==
    LET userid == decodedToken.id
    IN  IF userid \notin UserIds
        THEN Done(call, RefreshCatch(ApiError(401, "Invalid refresh token")))
        ELSE IF call.req.token # users[userid].refreshToken
        THEN Done(call, RefreshCatch(ApiError(401, "Refresh token is expired or used")))
        ELSE Await([call EXCEPT !.loc.userId = userid], "gen_findById")

\* The refresh tokens a client can present: none, one a login delivered, or one
\* it kept from before the store knew it.
Presentable == {NoToken} \cup delivered \cup {Stale(a) : a \in UserIds}

RefreshAccessToken(p, incomingRefreshToken) ==
    /\ Free(p)
    /\ incomingRefreshToken \in Presentable
    /\ LET t == incomingRefreshToken
           req == [NoReq EXCEPT !.token = t]
           hist == [NoHist EXCEPT
                       !.wasStored = t.id \in UserIds /\ users[t.id].refreshToken = t,
                       !.wasRevoked = t \in revoked,
                       !.wasSuperseded = t \in superseded,
                       !.firstUse = t \notin presented]
           call == Arrive("refreshAccessToken", req, hist)
           decodedToken == JwtVerify(t)
       IN  calls' = [calls EXCEPT ![p] =
                IF t = NoToken
                THEN Done(call, ApiError(401, "Unauthorized request"))
                ELSE IF decodedToken.threw
                THEN Done(call, RefreshCatch(decodedToken))
                ELSE RefreshFindById(call, decodedToken)]
    /\ presented' = presented \cup ({incomingRefreshToken} \ {NoToken})
    /\ nCalls' = nCalls + 1
    /\ UNCHANGED <<subscriptions, users, tokenClock, delivered, revoked, superseded, session>>

\* ---------------------------------------------------------------- currentPasswordChange

PasswordChars ==
    {UpperChars[i] : i \in 1..Len(UpperChars)} \cup {LowerChars[i] : i \in 1..Len(LowerChars)}
        \cup DigitChars \cup SymbolChars

\* /^(?=.*[a-z])(?=.*[A-Z])(?=.*\d)(?=.*[@$!%*?&])[A-Za-z\d@$!%*?&]{10,}$/.test(s)
PasswordRegexTest(s) ==
    /\ \E i \in 1..Len(s) : IsLower(s[i])
    /\ \E i \in 1..Len(s) : IsUpper(s[i])
    /\ \E i \in 1..Len(s) : s[i] \in DigitChars
    /\ \E i \in 1..Len(s) : s[i] \in SymbolChars
    /\ \A i \in 1..Len(s) : s[i] \in PasswordChars
    /\ Len(s) >= 10

\* The checks of currentPasswordChange: the error thrown, NoRes when there is none.
PasswordReject(user, oldPassword, newPassword) ==
    IF ~IsPasswordCorrect(user, oldPassword)
    THEN ApiError(400, "Invalid old password")
    ELSE IF IsPasswordCorrect(user, newPassword)
    THEN ApiError(400, "New password cannot be the same as the old password")
    ELSE IF ~PasswordRegexTest(newPassword)
    THEN ApiError(400, "New password must be at least 10 characters long")
    ELSE NoRes

\* currentPasswordChange up to user.password = newPassword.
CurrentPasswordChange(p, caller, oldPassword, newPassword) ==
    /\ Free(p)
    /\ caller \in Authenticated
    /\ LET req == [NoReq EXCEPT !.caller = caller, !.password = oldPassword,
                                !.newPassword = newPassword]
           call == Arrive("currentPasswordChange", req, NoHist)
           error == PasswordReject(users[caller], oldPassword, newPassword)
       IN  calls' = [calls EXCEPT ![p] =
                IF error # NoRes
                THEN Done(call, error)
                ELSE Await([call EXCEPT !.loc.userId = caller,
                                        !.loc.password = newPassword], "pw_save")]
    /\ nCalls' = nCalls + 1
    /\ UNCHANGED <<subscriptions, users, tokenClock, History>>

\* user.save(): the pre-save hook hashes the modified password.
PasswordSave(p) ==
    LET call == calls[p]
    IN  /\ users' = [users EXCEPT ![call.loc.userId].password = Hash(call.loc.password)]
        /\ calls' = [calls EXCEPT ![p] =
                Done(call, ApiResponse(200, "Password changed successfully"))]
        /\ UNCHANGED <<subscriptions, nCalls, tokenClock, History>>

\* ---------------------------------------------------------------- getCurrentUser

\* User.findById(userId), answered as read.
GetCurrentUser(p, caller) ==
    /\ Free(p)
    /\ caller \in Authenticated
    /\ calls' = [calls EXCEPT ![p] =
            Done(Arrive("getCurrentUser", [NoReq EXCEPT !.caller = caller], NoHist),
                 [ApiResponse(200, "Current user retrieved successfully") EXCEPT
                    !.user = Select(users[caller], {})])]
    /\ nCalls' = nCalls + 1
    /\ UNCHANGED <<subscriptions, users, tokenClock, History>>

\* ---------------------------------------------------------------- updateAccountDetails

\* User.findOne({ username })
FindByUsername(username) ==
    FirstOf({i \in UserIds : users[i].username = SchemaCast(username)})

\* What a profile update asks for, against the store as the request finds it:
\* a username some other account holds, and sent values that all equal the
\* caller's current ones.
UsernameTaken(caller, username) ==
    /\ ~Falsy(username)
    /\ \E b \in UserIds \ {caller} : users[b].username = ToLowerCase(username)

NothingNew(caller, fullName, username) ==
    /\ ~Falsy(fullName) \/ ~Falsy(username)
    /\ ~Falsy(fullName) => fullName = users[caller].fullName
    /\ ~Falsy(username) => username = users[caller].username

\* The comparison with the current values, after User.findById(userId).
UpdateFindById(call) ==
    LET currentUser == users[call.req.caller]
    IN  IF \/ call.req.fullName = currentUser.fullName
           \/ call.req.username = currentUser.username
        THEN Done(call, ApiError(400,
                "New full name and username cannot be the same as the old ones"))
        ELSE Await(call, "upd_update")

\* updateAccountDetails up to its first store access: the username lookup when a
\* username is sent, the read of the current account when none is.
UpdateAccountDetails(p, caller, fullName, username) ==
    /\ Free(p)
    /\ caller \in Authenticated
    /\ LET req == [NoReq EXCEPT !.caller = caller, !.fullName = fullName,
                                !.username = username]
           call == Arrive("updateAccountDetails", req,
                    [NoHist EXCEPT !.conflict = UsernameTaken(caller, username),
                                   !.identical = NothingNew(caller, fullName, username)])
           existingUser == FindByUsername(username)
       IN  calls' = [calls EXCEPT ![p] =
                IF Falsy(username)
                THEN UpdateFindById(call)
                ELSE IF existingUser # 0 /\ existingUser # caller
                THEN Done(call, ApiError(400, "Username already exists. Try another one "))
                ELSE Await(call, "upd_findById")]
    /\ nCalls' = nCalls + 1
    /\ UNCHANGED <<subscriptions, users, tokenClock, History>>

\* User.findByIdAndUpdate(userId, { $set: updateObject }, { new: true })
UpdateSet(p) ==
    LET call == calls[p]
        req == call.req
        old == users[req.caller]
        username == IF Falsy(req.username) THEN old.username ELSE SchemaCast(req.username)
        fullName == IF Falsy(req.fullName) THEN old.fullName ELSE req.fullName
        taken == \E i \in UserIds \ {req.caller} : users[i].username = username
    IN  IF taken
        THEN /\ calls' = [calls EXCEPT ![p] =
                    Done(call, ApiError(500, "E11000 duplicate key error"))]
             /\ UNCHANGED <<subscriptions, users, nCalls, tokenClock, History>>
        ELSE /\ users' = [users EXCEPT ![req.caller].username = username,
                                       ![req.caller].fullName = fullName]
             /\ calls' = [calls EXCEPT ![p] = Done(call,
                    [ApiResponse(200, "User account updated successfully") EXCEPT
                        !.user = Select(users'[req.caller], {})])]
             /\ UNCHANGED <<subscriptions, nCalls, tokenClock, History>>

\* ---------------------------------------------------------------- updateAvatarFile, updateCoverImageFile

\* Mutant: any previous reference is deleted.
DeleteAnyOld(oldUrl, newUrl) == oldUrl # <<>>

\* oldUrl && oldUrl !== newUrl
DeleteOld(oldUrl, newUrl) == oldUrl # <<>> /\ oldUrl # newUrl

\* await deleteCloudinaryImage(oldUrl): the request is made; the asset store
\* deletes, fails quietly, or fails with a rejection that ends the handler.
DeleteCloudinaryImage(call, next) ==
    LET asked == [call EXCEPT !.loc.deleted = call.loc.oldUrl]
    IN  IF call.req.deletion = "thrown"
        THEN Done(asked, ApiError(500, "Failed to delete the image"))
        ELSE Await(asked, next)

\* An image update up to the end of its upload: User.findById, the file check
\* and uploadOnCloudinary.
ImageUpload(call, oldUrl, file, missing, failed) ==
    IF call.req.caller \notin UserIds
    THEN Done(call, ApiError(404, "User not found"))
    ELSE IF ~file
    THEN Done(call, ApiError(400, missing))
    ELSE IF ~call.req.uploadOk
    THEN Done(call, ApiError(500, failed))
    ELSE [call EXCEPT !.loc.oldUrl = oldUrl]

\* updateAvatarFile up to its next await: the deletion of the previous avatar
\* when there is one to delete, the update of the account when there is none.
UpdateAvatarFile(p, caller, file, uploadOk, url, deletion) ==
    /\ Free(p)
    /\ caller \in Authenticated
    /\ LET req == [NoReq EXCEPT !.caller = caller, !.avatarFile = file,
                                !.uploadOk = uploadOk, !.url = url, !.deletion = deletion]
           call == ImageUpload(Arrive("updateAvatarFile", req, NoHist),
                        users[caller].avatar, file, "Avatar file is missing",
                        "Failed to upload avatar to Cloudinary")
       IN  calls' = [calls EXCEPT ![p] =
                IF call.pc = "done" THEN call
                ELSE IF DeleteOld(call.loc.oldUrl, url) THEN Await(call, "av_delete")
                ELSE Await(call, "av_update")]
    /\ nCalls' = nCalls + 1
    /\ UNCHANGED <<users, tokenClock, History, subscriptions>>

\* The deletion of the previous avatar, before the account is updated.
AvatarDelete(p) ==
    /\ calls' = [calls EXCEPT ![p] = DeleteCloudinaryImage(calls[p], "av_update")]
    /\ UNCHANGED <<users, nCalls, tokenClock, History, subscriptions>>

\* User.findByIdAndUpdate(userId, { $set: { avatar: avatar.url } }).select("-password")
AvatarUpdate(p) ==
    LET call == calls[p]
    IN  /\ users' = [users EXCEPT ![call.req.caller].avatar = call.req.url]
        /\ calls' = [calls EXCEPT ![p] = Done([call EXCEPT !.loc.persisted = TRUE],
                [ApiResponse(200, "Avatar updated successfully") EXCEPT
                    !.user = Select(users'[call.req.caller], {"password"})])]
        /\ UNCHANGED <<nCalls, tokenClock, History, subscriptions>>

\* updateCoverImageFile up to its update of the account.
UpdateCoverImageFile(p, caller, file, uploadOk, url, deletion) ==
    /\ Free(p)
    /\ caller \in Authenticated
    /\ LET req == [NoReq EXCEPT !.caller = caller, !.coverFile = file,
                                !.uploadOk = uploadOk, !.url = url, !.deletion = deletion]
           call == ImageUpload(Arrive("updateCoverImageFile", req, NoHist),
                        users[caller].coverImage, file, "Cover image file is missing",
                        "Failed to upload cover image to Cloudinary")
       IN  calls' = [calls EXCEPT ![p] =
                IF call.pc = "done" THEN call ELSE Await(call, "cv_update")]
    /\ nCalls' = nCalls + 1
    /\ UNCHANGED <<users, tokenClock, History, subscriptions>>

\* User.findByIdAndUpdate(userId, { $set: { coverImage: coverImage.url } })
\* .select("-password -refreshToken"), then the deletion when there is one to make.
CoverUpdate(p) ==
    LET call == [calls[p] EXCEPT !.loc.persisted = TRUE]
        updatedUser == Select(users'[call.req.caller], {"password", "refreshToken"})
    IN  /\ users' = [users EXCEPT ![call.req.caller].coverImage = call.req.url]
        /\ calls' = [calls EXCEPT ![p] =
                IF DeleteOld(call.loc.oldUrl, call.req.url)
                THEN Await([call EXCEPT !.res.user = updatedUser], "cv_delete")
                ELSE Done(call, [ApiResponse(200, "Cover image updated successfully")
                        EXCEPT !.user = updatedUser])]
        /\ UNCHANGED <<nCalls, tokenClock, History, subscriptions>>

\* The deletion of the previous cover image, after the account is updated.
CoverDelete(p) ==
    /\ LET call == DeleteCloudinaryImage(calls[p], "cv_respond")
       IN  calls' = [calls EXCEPT ![p] =
                IF call.pc = "done" THEN call
                ELSE Done(call, [ApiResponse(200, "Cover image updated successfully")
                        EXCEPT !.user = call.res.user])]
    /\ UNCHANGED <<users, nCalls, tokenClock, History, subscriptions>>

\* ---------------------------------------------------------------- getUserChannelProfile

\* The subscription controller stores an edge: subscriber follows channel. Edges
\* are not unique.
Subscribe(subscriber, channel) ==
    /\ Len(subscriptions) < MaxEdges
    /\ subscriber \in UserIds
    /\ channel \in UserIds
    /\ subscriptions' = Append(subscriptions,
            [subscriber |-> subscriber, channel |-> channel])
    /\ UNCHANGED <<users, calls, nCalls, tokenClock, History>>

\* Mutant: the match compares the username as sent.
MatchUsernameAsSent(username) ==
    SelectSeq([i \in UserIds |-> i], LAMBDA i : users[i].username = username)

\* $match: { username: username?.toLowerCase() }
MatchUsername(username) ==
    SelectSeq([i \in UserIds |-> i], LAMBDA i : users[i].username = ToLowerCase(username))

\* Mutant: the first lookup joins on the subscriber field.
LookupBySubscriber(id) ==
    SelectSeq(subscriptions, LAMBDA edge : edge.subscriber = id)

\* $lookup from subscriptions, localField _id, foreignField channel, as subscribers
LookupSubscribers(id) ==
    SelectSeq(subscriptions, LAMBDA edge : edge.channel = id)

\* $lookup from subscriptions, localField _id, foreignField subscriber, as subscribedTo
LookupSubscribedTo(id) ==
    SelectSeq(subscriptions, LAMBDA edge : edge.subscriber = id)

\* $addFields and $project, for the account id and the viewer req.user._id.
ChannelProfile(id, viewer) ==
    LET subscribers == LookupSubscribers(id)
        subscribedTo == LookupSubscribedTo(id)
    IN  [fullName |-> users[id].fullName,
         avatar |-> users[id].avatar,
         coverImage |-> users[id].coverImage,
         username |-> users[id].username,
         email |-> users[id].email,
         subscribersCount |-> Len(subscribers),
         subscribedToCount |-> Len(subscribedTo),
         isCurrentUserSubscribe |->
            \E k \in DOMAIN subscribers : subscribers[k].subscriber = viewer]

\* getUserChannelProfile: one aggregation, answered in the same step.
GetUserChannelProfile(p, caller, username) ==
    /\ Free(p)
    /\ caller \in Authenticated
    /\ LET req == [NoReq EXCEPT !.caller = caller, !.username = username]
           call == Arrive("getUserChannelProfile", req, NoHist)
           channel == MatchUsername(username)
       IN  calls' = [calls EXCEPT ![p] =
                IF Trim(username) = <<>>
                THEN Done(call, ApiError(404, "Username is missing"))
                ELSE IF Len(channel) = 0
                THEN Done(call, ApiError(404, "Channel does not exist"))
                ELSE Done(call, [ApiResponse(200, "Channel data accessed successfully") EXCEPT
                        !.user = ChannelProfile(channel[1], caller)])]
    /\ nCalls' = nCalls + 1
    /\ UNCHANGED <<users, tokenClock, History, subscriptions>>

\* ---------------------------------------------------------------- getWatchHistory

\* The videos collection in its natural order, _id = index, each with the _id of
\* its owner.
Videos == <<[owner |-> 1], [owner |-> 2], [owner |-> 1]>>

\* The video controller records a view of a logged-in viewer: the video's id is
\* appended to the viewer's watchHistory.
Watch(viewer, video) ==
    /\ viewer \in Authenticated
    /\ video \in DOMAIN Videos
    /\ Videos[video].owner \in UserIds
    /\ Len(users[viewer].watchHistory) < MaxHistory
    /\ users' = [users EXCEPT ![viewer].watchHistory = Append(@, video)]
    /\ UNCHANGED <<calls, nCalls, tokenClock, History, subscriptions>>

\* The inner pipeline: $lookup of the owner in users with its $project, then
\* $addFields owner: { $first: "$owner" }.
WithOwner(video) ==
    LET owner == SelectSeq([i \in UserIds |-> i], LAMBDA i : i = Videos[video].owner)
    IN  [id |-> video,
         owner |-> IF Len(owner) = 0 THEN NoDoc
                   ELSE [fullName |-> users[owner[1]].fullName,
                         avatar |-> users[owner[1]].avatar,
                         username |-> users[owner[1]].username]]

\* $lookup from videos on foreignField _id: the videos whose _id is an element
\* of the document's localField, in the order of the videos collection; a
\* document without that field joins nothing.
LookupVideos(doc, localField) ==
    IF localField \notin DOMAIN doc
    THEN <<>>
    ELSE LET ids == {doc[localField][k] : k \in DOMAIN doc[localField]}
             found == SelectSeq([v \in DOMAIN Videos |-> v], LAMBDA v : v \in ids)
         IN  [k \in DOMAIN found |-> WithOwner(found[k])]

\* Mutant: an empty list counts as no watch history.
HistoryMissingOrEmpty(user) == Len(user) = 0 \/ user[1].watchHistory = <<>>

\* !user || user.length === 0 || !user[0].watchHistory, where the joined
\* watchHistory is an array and an array is truthy even when empty.
HistoryMissing(user) == Len(user) = 0

\* getWatchHistory: one aggregation, answered in the same step.
GetWatchHistory(p, caller) ==
    /\ Free(p)
    /\ caller \in Authenticated
    /\ LET call == Arrive("getWatchHistory", [NoReq EXCEPT !.caller = caller], NoHist)
           matched == SelectSeq([i \in UserIds |-> i], LAMBDA i : i = caller)
           user == [k \in DOMAIN matched |->
                        [watchHistory |-> LookupVideos(users[matched[k]], "watchhistory")]]
       IN  calls' = [calls EXCEPT ![p] =
                IF HistoryMissing(user)
                THEN Done(call, ApiResponse(404, "No watch history found"))
                ELSE Done(call, [ApiResponse(200, "Watch history accessed successfully")
                        EXCEPT !.hasList = TRUE, !.list = user[1].watchHistory])]
    /\ nCalls' = nCalls + 1
    /\ UNCHANGED <<users, tokenClock, History, subscriptions>>

\* ---------------------------------------------------------------- the event loop

\* The handler on connection p runs through its next store access.
Resume(p) ==
    /\ calls[p].pc \notin {"idle", "done"}
    /\ CASE calls[p].pc = "reg_create" -> RegisterCreate(p)
         [] calls[p].pc = "reg_findById" -> RegisterFindById(p)
         [] calls[p].pc = "gen_findById" -> GenarateFindById(p)
         [] calls[p].pc = "gen_save" -> GenarateSave(p)
         [] calls[p].pc = "login_findById" -> LoginFindById(p)
         [] calls[p].pc = "pw_save" -> PasswordSave(p)
         [] calls[p].pc = "upd_findById" ->
                /\ calls' = [calls EXCEPT ![p] = UpdateFindById(calls[p])]
                /\ UNCHANGED <<subscriptions, users, nCalls, tokenClock, History>>
         [] calls[p].pc = "upd_update" -> UpdateSet(p)
         [] calls[p].pc = "av_delete" -> AvatarDelete(p)
         [] calls[p].pc = "av_update" -> AvatarUpdate(p)
         [] calls[p].pc = "cv_update" -> CoverUpdate(p)
         [] calls[p].pc = "cv_delete" -> CoverDelete(p)

Init ==
    /\ users = <<>>
    /\ calls = [p \in Conns |-> IdleCall]
    /\ nCalls = 0
    /\ tokenClock = 0
    /\ delivered = {}
    /\ presented = {}
    /\ revoked = {}
    /\ superseded = {}
    /\ session = <<>>
    /\ subscriptions = <<>>

\* ---------------------------------------------------------------- inputs

Alice == <<"a","l">>
AliceMail == <<"a","@","x">>
Bob == <<"b","o">>
BobMail == <<"b","@","x">>
Pass1 == <<"P","a","s","s","w","o","r","d","1","!">>
Pass2 == <<"S","e","c","r","e","t","W","0","r","d","?">>
Weak == <<"s","h","o","r","t","1","!">>

LoginEmails == {AliceMail, BobMail, <<"A","@","X">>, <<>>}

\* The session operations on accounts registered with valid details.
SessionNext ==
    \E p \in Conns :
        \/ \E u \in {<<Alice, AliceMail>>, <<Bob, BobMail>>} :
              RegisterUser(p, u[1], u[2], u[1], Pass1, TRUE, FALSE, TRUE)
        \/ \E email \in LoginEmails, password \in {Pass1, Pass2} :
              LoginUser(p, email, password)
        \/ \E a \in UserIds : LogoutUser(p, a)
        \/ \E a \in UserIds, n \in 0..tokenClock :
              RefreshAccessToken(p, [id |-> a, n |-> n])
        \/ RefreshAccessToken(p, NoToken)
        \/ \E a \in UserIds, old \in {Pass1, Pass2}, new \in {Pass1, Pass2, Weak} :
              CurrentPasswordChange(p, a, old, new)
        \/ Resume(p)

SessionSpec == Init /\ [][SessionNext]_vars

ValidDetails == [NoReq EXCEPT !.username = Alice, !.email = AliceMail,
                             !.fullName = Alice, !.password = Pass1,
                             !.avatarFile = TRUE, !.coverFile = FALSE,
                             !.uploadOk = TRUE]

\* Registrations of every kind: usernames and emails that differ or agree up to
\* letter case, a blank field of each kind, a missing avatar, a failed upload.
RegisterInputs ==
    {[ValidDetails EXCEPT !.username = username, !.email = email] :
        username \in {Alice, <<"A","l">>}, email \in {AliceMail, <<"A","@","X">>}}
    \cup {[ValidDetails EXCEPT !.username = Bob, !.email = BobMail, !.coverFile = TRUE],
          [ValidDetails EXCEPT !.username = Bob],
          [ValidDetails EXCEPT !.email = BobMail],
          [ValidDetails EXCEPT !.username = <<" "," ">>],
          [ValidDetails EXCEPT !.email = <<>>],
          [ValidDetails EXCEPT !.fullName = <<" ">>],
          [ValidDetails EXCEPT !.password = <<>>],
          [ValidDetails EXCEPT !.password = <<>>, !.avatarFile = FALSE],
          [ValidDetails EXCEPT !.avatarFile = FALSE],
          [ValidDetails EXCEPT !.uploadOk = FALSE]}

RegisterNext ==
    \E p \in Conns :
        \/ \E r \in RegisterInputs :
              RegisterUser(p, r.username, r.email, r.fullName, r.password,
                           r.avatarFile, r.coverFile, r.uploadOk)
        \/ Resume(p)

RegisterSpec == Init /\ [][RegisterNext]_vars

\* The operations that answer with account data.
ProfileNext ==
    \E p \in Conns :
        \/ \E u \in {<<Alice, AliceMail>>, <<Bob, BobMail>>} :
              RegisterUser(p, u[1], u[2], u[1], Pass1, TRUE, FALSE, TRUE)
        \/ \E email \in {AliceMail, BobMail} : LoginUser(p, email, Pass1)
        \/ \E a \in UserIds : GetCurrentUser(p, a)
        \/ \E a \in UserIds,
              fullName \in {Undefined, Alice, Bob},
              username \in {Undefined, Alice, <<"A","l">>, Bob} :
              UpdateAccountDetails(p, a, fullName, username)
        \/ Resume(p)

ProfileSpec == Init /\ [][ProfileNext]_vars

\* New passwords of every kind: two that pass, one too short, one without an
\* uppercase letter, a digit, a symbol, a lowercase letter, and one that has them
\* all and a character outside the pattern's class.
NoUpper == <<"a","l","l","l","o","w","e","r","c","a","s","e","1","!">>
NoDigit == <<"N","o","D","i","g","i","t","s","!","!">>
NoSymbol == <<"P","a","s","s","w","o","r","d","1","2">>
NoLower == <<"P","A","S","S","W","O","R","D","1","!">>
WithHash == <<"P","a","s","s","w","0","r","d","!","#">>

NewPasswords == {Pass1, Pass2, Weak, NoUpper, NoDigit, NoSymbol, NoLower, WithHash}

\* Password changes on one account, the logins that try the passwords and the
\* refreshes that try the tokens.
PasswordNext ==
    \E p \in Conns :
        \/ RegisterUser(p, Alice, AliceMail, Alice, Pass1, TRUE, FALSE, TRUE)
        \/ \E password \in {Pass1, Pass2, WithHash} : LoginUser(p, AliceMail, password)
        \/ \E a \in UserIds, old \in {Pass1, Pass2}, new \in NewPasswords :
              CurrentPasswordChange(p, a, old, new)
        \/ \E a \in UserIds, n \in 1..tokenClock :
              RefreshAccessToken(p, [id |-> a, n |-> n])
        \/ Resume(p)

PasswordSpec == Init /\ [][PasswordNext]_vars

\* Channel pages: two accounts, the edges between them and the pages asked for,
\* by the stored username, in another letter case, padded, and blank.
ChannelNames == {Alice, <<"A","l">>, Bob, <<"a","l"," ">>, <<" ">>}

ChannelNext ==
    \/ \E p \in Conns :
        \/ \E u \in {<<Alice, AliceMail>>, <<Bob, BobMail>>} :
              RegisterUser(p, u[1], u[2], u[1], Pass1, TRUE, FALSE, TRUE)
        \/ \E email \in {AliceMail, BobMail} : LoginUser(p, email, Pass1)
        \/ \E a \in UserIds, username \in ChannelNames :
              GetUserChannelProfile(p, a, username)
        \/ Resume(p)
    \/ \E subscriber, channel \in UserIds : Subscribe(subscriber, channel)

ChannelSpec == Init /\ [][ChannelNext]_vars

\* Watch histories: two accounts that own the videos, the views of one of them
\* and the histories asked for.
HistoryNext ==
    \/ \E p \in Conns :
        \/ \E u \in {<<Alice, AliceMail>>, <<Bob, BobMail>>} :
              RegisterUser(p, u[1], u[2], u[1], Pass1, TRUE, FALSE, TRUE)
        \/ \E email \in {AliceMail, BobMail} : LoginUser(p, email, Pass1)
        \/ \E a \in UserIds : GetWatchHistory(p, a)
        \/ Resume(p)
    \/ \E viewer \in UserIds, video \in DOMAIN Videos : Watch(viewer, video)

HistorySpec == Init /\ [][HistoryNext]_vars

\* Image updates of one account, registered with or without a cover image: no
\* file, a failed upload, and uploads that return the reference the account has
\* or another, with every outcome of the deletion.
Asset2 == <<"asset-2">>

ImageInputs ==
    {[file |-> FALSE, uploadOk |-> TRUE, deletion |-> "deleted"],
     [file |-> TRUE, uploadOk |-> FALSE, deletion |-> "deleted"]}
    \union [file : {TRUE}, uploadOk : {TRUE}, deletion : {"deleted", "failed", "thrown"}]

AssetNext ==
    \E p \in Conns :
        \/ \E coverFile \in BOOLEAN :
              RegisterUser(p, Alice, AliceMail, Alice, Pass1, TRUE, coverFile, TRUE)
        \/ LoginUser(p, AliceMail, Pass1)
        \/ \E a \in UserIds, i \in ImageInputs, url \in {AvatarUrl, Asset2} :
              UpdateAvatarFile(p, a, i.file, i.uploadOk, url, i.deletion)
        \/ \E a \in UserIds, i \in ImageInputs, url \in {CoverUrl, Asset2} :
              UpdateCoverImageFile(p, a, i.file, i.uploadOk, url, i.deletion)
        \/ Resume(p)

AssetSpec == Init /\ [][AssetNext]_vars

\* ---------------------------------------------------------------- claims

Answered(p, op) == calls[p].op = op /\ calls[p].pc = "done"

StoredToken(t) == t.id \in UserIds /\ users[t.id].refreshToken = t

\* C1 (as claimed): a refresh presenting, for the first time, the token a login
\* delivered and the account still stores answers 200 with a new token pair; a
\* refresh presenting that token again answers 401.
C1_RefreshOnceAfterLogin ==
    \A p \in Conns :
        (Answered(p, "refreshAccessToken") /\ calls[p].req.token \in delivered) =>
            /\ (calls[p].hist.firstUse /\ calls[p].hist.wasStored) =>
                    /\ calls[p].res.status = 200
                    /\ calls[p].res.accessToken # NoToken
                    /\ calls[p].res.refreshToken \notin {NoToken, calls[p].req.token}
            /\ ~calls[p].hist.firstUse => calls[p].res.status = 401

\* C2: once an account has logged out, no refresh token delivered to it before
\* the logout is the stored one, and a refresh presenting one answers 401 and
\* carries no token.
C2_LogoutRevokes ==
    /\ \A t \in revoked : ~StoredToken(t)
    /\ \A p \in Conns :
        (Answered(p, "refreshAccessToken") /\ calls[p].hist.wasRevoked) =>
            /\ calls[p].res.status = 401
            /\ calls[p].res.accessToken = NoToken
            /\ calls[p].res.refreshToken = NoToken

C2_Witness ==
    \E p \in Conns :
        /\ Answered(p, "refreshAccessToken")
        /\ calls[p].hist.wasRevoked
        /\ calls[p].res.status = 401

\* C3: a token delivered by a login is no longer the stored one once a later
\* login on the same account has answered, and a refresh presenting it then
\* answers 401.
C3_LoginOverwrites ==
    /\ \A t \in superseded : ~StoredToken(t)
    /\ \A p \in Conns :
        (Answered(p, "refreshAccessToken") /\ calls[p].hist.wasSuperseded) =>
            calls[p].res.status = 401

C3_Witness ==
    \E p \in Conns :
        /\ Answered(p, "refreshAccessToken")
        /\ calls[p].hist.wasSuperseded
        /\ calls[p].res.status = 401
        /\ \E t \in delivered \ superseded :
                t.id = calls[p].req.token.id /\ StoredToken(t)

\* C4 (as claimed): a refresh presenting the token the account stores answers 200,
\* stores a new token, and returns the very token it stored.
C4_RefreshReturnsStored ==
    \A p \in Conns :
        (Answered(p, "refreshAccessToken") /\ calls[p].hist.wasStored) =>
            /\ calls[p].res.status = 200
            /\ calls[p].loc.refreshToken # NoToken
            /\ calls[p].res.refreshToken = calls[p].loc.refreshToken

\* C5 (as claimed, the part every such interleaving passes through): of two
\* refresh requests that both presented the stored token, neither has been
\* refused as long as that token is still the stored one.
C5_BothPassTheCheck ==
    \A p, q \in Conns :
        (/\ p # q
         /\ calls[p].op = "refreshAccessToken"
         /\ calls[q].op = "refreshAccessToken"
         /\ calls[p].req.token = calls[q].req.token
         /\ calls[p].hist.wasStored
         /\ calls[q].hist.wasStored
         /\ StoredToken(calls[p].req.token)) =>
            /\ calls[p].res.status # 401
            /\ calls[q].res.status # 401

\* The lost update C5 describes: both requests answered 200 and one of the tokens
\* returned is not the stored one.  No reachable state shows it.
C5_NoLostUpdate ==
    ~ \E p, q \in Conns :
        /\ p # q
        /\ Answered(p, "refreshAccessToken")
        /\ Answered(q, "refreshAccessToken")
        /\ calls[p].res.status = 200
        /\ calls[q].res.status = 200

Completes(p) ==
    /\ calls'[p].pc = "done"
    /\ calls[p].pc # "done" \/ calls'[p].seq # calls[p].seq

\* C6: an account stores no refresh token exactly when it has no session (it
\* has registered or logged out and not logged in since); a request that ends
\* in an error has issued no token, and the step that ends it changes no stored
\* token.
C6_TokenIffSession ==
    [][/\ \A a \in 1..Len(users') :
            (users'[a].refreshToken = NoToken) <=> (session'[a] = "Registered")
       /\ \A p \in Conns :
            (Completes(p) /\ calls'[p].res.status >= 400) =>
                /\ calls'[p].loc.refreshToken = NoToken
                /\ \A a \in UserIds : users'[a].refreshToken = users[a].refreshToken
      ]_vars

C6_Witness ==
    /\ \E a \in UserIds :
        /\ a \in Authenticated
        /\ users[a].refreshToken = NoToken
        /\ session[a] = "Registered"
    /\ \E p \in Conns : calls[p].pc = "done" /\ calls[p].res.status >= 400

\* The step in which a login request arrives on connection p.
LoginArrives(p) ==
    /\ nCalls' = nCalls + 1
    /\ calls'[p].seq = nCalls'
    /\ calls'[p].op = "loginUser"

\* The accounts whose email equals e up to letter case, before the step.
SameEmail(e) == {a \in UserIds : ToLowerCase(users[a].email) = ToLowerCase(e)}

LoginRefused(p, status) ==
    /\ calls'[p].pc = "done"
    /\ calls'[p].res.status = status
    /\ calls'[p].res.accessToken = NoToken
    /\ calls'[p].res.refreshToken = NoToken
    /\ users' = users
    /\ tokenClock' = tokenClock

\* C10 (as claimed): a login whose email matches no account answers 404, one
\* whose password does not match answers 401; neither issues a token nor changes
\* the store.
C10_LoginFailures ==
    [][\A p \in Conns : LoginArrives(p) =>
        LET email == calls'[p].req.email
            password == calls'[p].req.password
        IN  /\ (email # Undefined /\ SameEmail(email) = {}) => LoginRefused(p, 404)
            /\ (email # Undefined /\ \E a \in SameEmail(email) :
                        users[a].password # Hash(password)) => LoginRefused(p, 401)
      ]_vars

\* C10 (amended): the same for a login that sends a non-empty email.
C10_LoginFailuresWithEmail ==
    [][\A p \in Conns : LoginArrives(p) =>
        LET email == calls'[p].req.email
            password == calls'[p].req.password
        IN  /\ (~Falsy(email) /\ SameEmail(email) = {}) => LoginRefused(p, 404)
            /\ (~Falsy(email) /\ \E a \in SameEmail(email) :
                        users[a].password # Hash(password)) => LoginRefused(p, 401)
      ]_vars

C10_Witness ==
    /\ \E p \in Conns :
        /\ Answered(p, "loginUser")
        /\ calls[p].res.status = 401
        /\ \E a \in UserIds :
            /\ users[a].email = ToLowerCase(calls[p].req.email)
            /\ users[a].refreshToken # NoToken
    /\ \E p \in Conns : Answered(p, "loginUser") /\ calls[p].res.status = 404

\* C7 (as claimed): no answer that carries an account carries its password hash.
C7_NoPasswordInResponse ==
    \A p \in Conns :
        (calls[p].pc = "done" /\ "absent" \notin DOMAIN calls[p].res.user) =>
            "password" \notin DOMAIN calls[p].res.user

\* The step in which a registration arrives on connection p.
RegisterArrives(p) ==
    /\ nCalls' = nCalls + 1
    /\ calls'[p].seq = nCalls'
    /\ calls'[p].op = "registerUser"

SomeBlank(req) ==
    \E field \in {req.username, req.email, req.fullName, req.password} :
        Trim(field) = <<>>

\* C8: a registration whose username or email equals an existing account's up to
\* letter case answers 400 (the conflict error, when no field is blank) and adds
\* no account; no two accounts share a username or an email up to letter case.
C8_UniqueUpToCase ==
    [][/\ \A a, b \in 1..Len(users') :
            a # b =>
                /\ ToLowerCase(users'[a].username) # ToLowerCase(users'[b].username)
                /\ ToLowerCase(users'[a].email) # ToLowerCase(users'[b].email)
       /\ \A p \in Conns :
            (/\ RegisterArrives(p)
             /\ \E a \in UserIds :
                    \/ ToLowerCase(users[a].username) = ToLowerCase(calls'[p].req.username)
                    \/ ToLowerCase(users[a].email) = ToLowerCase(calls'[p].req.email)) =>
                /\ calls'[p].pc = "done"
                /\ calls'[p].res.status = 400
                /\ ~SomeBlank(calls'[p].req) => calls'[p].res.message = "User already exists"
                /\ users' = users
      ]_vars

C8_Witness ==
    /\ Len(users) = 2
    /\ \E p \in Conns, a \in UserIds :
        /\ Answered(p, "registerUser")
        /\ calls[p].res.status = 400
        /\ calls[p].res.message = "User already exists"
        /\ calls[p].req.email # users[a].email
        /\ ToLowerCase(calls[p].req.email) = users[a].email
        /\ ToLowerCase(calls[p].req.username) # users[a].username

\* C9 (as claimed): a registration with a blank field or without an avatar file
\* answers 400 and adds no account.
C9_RegisterValidation ==
    [][\A p \in Conns :
        (RegisterArrives(p) /\ (SomeBlank(calls'[p].req) \/ ~calls'[p].req.avatarFile)) =>
            /\ calls'[p].pc = "done"
            /\ calls'[p].res.status = 400
            /\ users' = users
      ]_vars

\* The step in which a password change arrives on connection p.
PasswordChangeArrives(p) ==
    /\ nCalls' = nCalls + 1
    /\ calls'[p].seq = nCalls'
    /\ calls'[p].op = "currentPasswordChange"

Refused(p, status) ==
    /\ calls'[p].pc = "done"
    /\ calls'[p].res.status = status
    /\ users' = users

\* C11 (as claimed): a password change whose old password does not match the
\* stored hash answers 401, one whose new password is the current one answers
\* 400, and neither changes the store.
C11_PasswordChangeFailures ==
    [][\A p \in Conns : PasswordChangeArrives(p) =>
        LET user == users[calls'[p].req.caller]
            oldPassword == calls'[p].req.password
            newPassword == calls'[p].req.newPassword
        IN  /\ user.password # Hash(oldPassword) => Refused(p, 401)
            /\ (user.password = Hash(oldPassword) /\ user.password = Hash(newPassword)) =>
                    Refused(p, 400)
      ]_vars

\* What C11 leaves of the code: both failures are refused and change nothing,
\* whatever the status.
C11_FailuresChangeNothing ==
    [][\A p \in Conns : PasswordChangeArrives(p) =>
        LET user == users[calls'[p].req.caller]
        IN  (\/ user.password # Hash(calls'[p].req.password)
             \/ user.password = Hash(calls'[p].req.newPassword)) =>
                /\ calls'[p].pc = "done"
                /\ calls'[p].res.status >= 400
                /\ users' = users
      ]_vars

\* The strength predicate as the specification words it.
Strong(s) ==
    /\ Len(s) >= 10
    /\ \E i \in 1..Len(s) : IsLower(s[i])
    /\ \E i \in 1..Len(s) : IsUpper(s[i])
    /\ \E i \in 1..Len(s) : s[i] \in DigitChars
    /\ \E i \in 1..Len(s) : s[i] \in SymbolChars

\* C12 (as claimed): with the old password right and a new one that differs from
\* it, the change is refused with 400 exactly when the new password fails the
\* strength predicate; a change that answers 200 has stored the new hash.
C12_StrengthDecides ==
    [][\A p \in Conns :
        /\ PasswordChangeArrives(p) =>
            LET user == users[calls'[p].req.caller]
                newPassword == calls'[p].req.newPassword
            IN  (/\ user.password = Hash(calls'[p].req.password)
                 /\ user.password # Hash(newPassword)) =>
                    /\ ~Strong(newPassword) => Refused(p, 400)
                    /\ Strong(newPassword) => calls'[p].pc = "pw_save"
        /\ (/\ calls[p].pc = "pw_save"
            /\ calls'[p].pc = "done") =>
                /\ calls'[p].res.status = 200
                /\ users'[calls[p].req.caller].password = Hash(calls[p].req.newPassword)
      ]_vars

\* C13 (as claimed): a password change that answers 200 leaves the stored
\* refresh token in place, so a refresh that afterwards presents the token still
\* stored answers 200.
C13_SessionsSurviveChange ==
    \A p, q \in Conns :
        (/\ Answered(q, "currentPasswordChange")
         /\ calls[q].res.status = 200
         /\ Answered(p, "refreshAccessToken")
         /\ calls[p].seq > calls[q].seq
         /\ calls[p].req.token.id = calls[q].req.caller
         /\ calls[p].hist.wasStored) =>
            calls[p].res.status = 200

\* The part of C13 the code keeps: the step that saves the new hash changes that
\* hash alone.
C13_OnlyTheHashChanges ==
    [][\A p \in Conns :
        (calls[p].pc = "pw_save" /\ calls'[p].pc = "done") =>
            /\ Len(users') = Len(users)
            /\ \A a \in UserIds :
                /\ users'[a].refreshToken = users[a].refreshToken
                /\ Select(users'[a], {"password"}) = Select(users[a], {"password"})
      ]_vars

\* C18 (as claimed): a profile update answers 400 when the username it sends
\* belongs to another account and when the values it sends equal the current
\* ones, and 200 in every other case; a 200 changes the sent fields and nothing
\* else, and an error changes nothing.
C18_UpdateOutcomes ==
    [][\A p \in Conns :
        (Completes(p) /\ calls'[p].op = "updateAccountDetails") =>
            LET call == calls'[p]
                a == call.req.caller
            IN  /\ call.hist.conflict => call.res.status = 400
                /\ call.hist.identical => call.res.status = 400
                /\ (~call.hist.conflict /\ ~call.hist.identical) => call.res.status = 200
                /\ call.res.status # 200 => users' = users
                /\ call.res.status = 200 =>
                    /\ \A b \in UserIds \ {a} : users'[b] = users[b]
                    /\ Select(users'[a], {"username", "fullName"}) =
                            Select(users[a], {"username", "fullName"})
                    /\ Falsy(call.req.fullName) => users'[a].fullName = users[a].fullName
                    /\ Falsy(call.req.username) => users'[a].username = users[a].username
      ]_vars

\* What C18 leaves of the code: an error changes nothing and a 200 changes the
\* sent fields of the caller's account alone.
C18_Frame ==
    [][\A p \in Conns :
        (Completes(p) /\ calls'[p].op = "updateAccountDetails") =>
            LET call == calls'[p]
                a == call.req.caller
            IN  /\ call.res.status # 200 => users' = users
                /\ call.res.status = 200 =>
                    /\ \A b \in UserIds \ {a} : users'[b] = users[b]
                    /\ Select(users'[a], {"username", "fullName"}) =
                            Select(users[a], {"username", "fullName"})
                    /\ Falsy(call.req.fullName) => users'[a].fullName = users[a].fullName
                    /\ Falsy(call.req.username) => users'[a].username = users[a].username
      ]_vars

\* The step in which a channel page is asked for on connection p; the handler
\* answers in that step.
ChannelArrives(p) ==
    /\ nCalls' = nCalls + 1
    /\ calls'[p].seq = nCalls'
    /\ calls'[p].op = "getUserChannelProfile"

\* The accounts whose username is the case-folded name, before the step.
Named(username) == {a \in UserIds : users[a].username = ToLowerCase(username)}

Edges(P(_)) == Cardinality({k \in DOMAIN subscriptions : P(subscriptions[k])})

\* C14: a channel page that is answered carries, for its channel C and the viewer
\* V, the number of edges whose channel is C, the number of edges whose
\* subscriber is C, and whether some edge has channel C and subscriber V.
C14_ChannelCounts ==
    [][\A p \in Conns : (ChannelArrives(p) /\ calls'[p].res.status = 200) =>
        \E c \in Named(calls'[p].req.username) :
            LET page == calls'[p].res.user
                viewer == calls'[p].req.caller
                ToC(edge) == edge.channel = c
                FromC(edge) == edge.subscriber = c
                FromViewerToC(edge) == edge.channel = c /\ edge.subscriber = viewer
            IN  /\ page.subscribersCount = Edges(ToC)
                /\ page.subscribedToCount = Edges(FromC)
                /\ page.isCurrentUserSubscribe = (Edges(FromViewerToC) > 0)
      ]_vars

\* A page of a channel with two subscriber edges, none of them the viewer's, and
\* an edge of its own.
C14_Witness ==
    \E p \in Conns :
        /\ Answered(p, "getUserChannelProfile")
        /\ calls[p].res.status = 200
        /\ calls[p].res.user.subscribersCount = 2
        /\ calls[p].res.user.subscribedToCount = 1
        /\ ~calls[p].res.user.isCurrentUserSubscribe

\* C15: a channel page answers 404 exactly when no account has the case-folded
\* username, and otherwise 200 with the one profile of that account, whose
\* counts are 0 and whose flag is false when the store holds no edge of it.
C15_ChannelFound ==
    [][\A p \in Conns : ChannelArrives(p) =>
        LET res == calls'[p].res
            named == Named(calls'[p].req.username)
        IN  /\ calls'[p].pc = "done"
            /\ res.status \in {200, 404}
            /\ res.status = 404 <=> named = {}
            /\ res.status = 404 => "absent" \in DOMAIN res.user
            /\ res.status = 200 =>
                \E c \in named :
                    /\ named = {c}
                    /\ res.user.username = users[c].username
                    /\ res.user.email = users[c].email
                    /\ (\A k \in DOMAIN subscriptions :
                            c \notin {subscriptions[k].channel, subscriptions[k].subscriber}) =>
                        /\ res.user.subscribersCount = 0
                        /\ res.user.subscribedToCount = 0
                        /\ ~res.user.isCurrentUserSubscribe
      ]_vars

\* A page found under a name sent in another letter case, of a channel without
\* edges while the store holds some, next to a page that was not found.
C15_Witness ==
    \E p, q \in Conns :
        /\ Answered(p, "getUserChannelProfile")
        /\ calls[p].res.status = 200
        /\ calls[p].req.username # calls[p].res.user.username
        /\ calls[p].res.user.subscribersCount = 0
        /\ subscriptions # <<>>
        /\ Answered(q, "getUserChannelProfile")
        /\ calls[q].res.status = 404
        /\ Trim(calls[q].req.username) # <<>>

\* The step in which a watch history is asked for on connection p; the handler
\* answers in that step.
HistoryArrives(p) ==
    /\ nCalls' = nCalls + 1
    /\ calls'[p].seq = nCalls'
    /\ calls'[p].op = "getWatchHistory"

\* C16 (as claimed): a watch history is answered with the videos of the stored
\* watchHistory in the stored order, each with its owner as one object.
C16_HistoryInStoredOrder ==
    [][\A p \in Conns : HistoryArrives(p) =>
        LET res == calls'[p].res
            stored == users[calls'[p].req.caller].watchHistory
        IN  /\ res.status = 200
            /\ res.hasList
            /\ [k \in DOMAIN res.list |-> res.list[k].id] = stored
            /\ \A k \in DOMAIN res.list :
                    "absent" \notin DOMAIN res.list[k].owner
      ]_vars

\* C17: a watch history asked for by an account whose watchHistory is empty is
\* answered 200 with a list, and the list is empty.
C17_EmptyHistory ==
    [][\A p \in Conns :
        (HistoryArrives(p) /\ users[calls'[p].req.caller].watchHistory = <<>>) =>
            /\ calls'[p].pc = "done"
            /\ calls'[p].res.status = 200
            /\ calls'[p].res.success
            /\ calls'[p].res.hasList
            /\ calls'[p].res.list = <<>>
      ]_vars

\* An account that has watched nothing has its history answered.
C17_Witness ==
    \E p \in Conns :
        /\ Answered(p, "getWatchHistory")
        /\ users[calls[p].req.caller].watchHistory = <<>>
        /\ calls[p].res.status = 200
        /\ calls[p].res.hasList
        /\ calls[p].res.list = <<>>

ImageUpdate(p) == calls[p].op \in {"updateAvatarFile", "updateCoverImageFile"}

\* C19 (as claimed): an image update that has asked for the deletion of the
\* previous asset has stored the new reference before, so that no outcome of the
\* deletion leaves the account with the old one.
C19_PersistedBeforeDeletion ==
    \A p \in Conns :
        (ImageUpdate(p) /\ calls[p].loc.deleted # Undefined) => calls[p].loc.persisted

\* What C19 leaves of the code: the cover image update stores first.
C19_CoverPersistsFirst ==
    \A p \in Conns :
        (calls[p].op = "updateCoverImageFile" /\ calls[p].loc.deleted # Undefined) =>
            calls[p].loc.persisted

\* C20: an image update asks for the deletion of nothing but the reference its
\* account held, and only when that reference exists and differs from the new
\* one; with a new reference equal to the previous one it asks for none.
C20_DeletesOnlyReplaced ==
    [][\A p \in Conns : ImageUpdate(p)' =>
        LET call == calls'[p]
        IN  /\ (call.pc # "done" /\ call.seq # calls[p].seq) =>
                    call.loc.oldUrl = (IF call.op = "updateAvatarFile"
                                       THEN users[call.req.caller].avatar
                                       ELSE users[call.req.caller].coverImage)
            /\ call.loc.deleted # Undefined =>
                /\ call.loc.deleted = call.loc.oldUrl
                /\ call.loc.deleted # <<>>
                /\ call.loc.deleted # call.req.url
      ]_vars

\* An update whose upload returned the reference the account already had is
\* answered without a deletion, next to one that replaced a reference and asked
\* for the deletion of the old one.
C20_Witness ==
    \E p, q \in Conns :
        /\ ImageUpdate(p)
        /\ calls[p].pc = "done"
        /\ calls[p].res.status = 200
        /\ calls[p].loc.oldUrl = calls[p].req.url
        /\ calls[p].loc.deleted = Undefined
        /\ ImageUpdate(q)
        /\ calls[q].loc.deleted # Undefined

====
